---- MODULE Spec2Model ----
(***************************************************************************)
(* A model of homework_data/homework02/convert_json_to_csv.py: the one-pass *)
(* converter of alias/suspect JSON documents to flat and wide CSV tables.   *)
(*                                                                         *)
(* Strings are sequences of one-character strings, so that the regular     *)
(* expressions, the slug, the cell format and the time key are computed    *)
(* character by character as the code computes them.  A Python value that  *)
(* may be an int or a str (a sample id, a cell of a row) is a tagged       *)
(* record, PyInt(n) or PyStr(s).                                           *)
(***************************************************************************)
EXTENDS Integers, Sequences, FiniteSets, TLC

VARIABLES
    call,           \* the entry point under execution and its arguments
    ret,            \* the value returned by a helper called on its own
    pc,             \* the position of the control in the entry point
    alias_dir,      \* ALIAS_DIR: file name -> document (the *.json entries)
    suspect_dir,    \* SUSPECT_DIR: file name -> document (the *.json entries)
    idx,            \* the position of the running for loop in its sequence
    alias_rows,     \* main: alias_rows
    alias_by_name,  \* main: alias_by_name, in insertion order
    suspect_rows,   \* main: the four row lists of the suspect loop
    fs,             \* the files written so far: path -> contents
    exc,            \* the exception that ended the run, "none" if none
    run,            \* the number of the current invocation of the program
    wide_headers    \* the log of the wide tables: run, alias name, fieldnames

vars == <<call, ret, pc, alias_dir, suspect_dir, idx, alias_rows, alias_by_name,
          suspect_rows, fs, exc, run, wide_headers>>

-----------------------------------------------------------------------------
(* Bounds of the model *)

MaxStemLen == 3
MaxTimeLen == 5
MaxCsvRows == 2
MaxAliasFiles == 2
MaxStatements == 2
MaxFewAliasFiles == 2
MaxFewStatements == 1
MaxGps == 1
MaxWitnesses == 2
MaxObservations == 1

-----------------------------------------------------------------------------
(* Python values and strings *)

PyInt(n) == [tag |-> "int", val |-> n]
PyStr(s) == [tag |-> "str", val |-> s]
EmptyStr == PyStr(<<>>)

\* None: a value that is no string of characters
None == << "<None>" >>

Digits == <<"0", "1", "2", "3", "4", "5", "6", "7", "8", "9">>
UpperCase == <<"A", "B", "C", "D", "E", "F", "G", "H", "I", "J", "K", "L", "M",
               "N", "O", "P", "Q", "R", "S", "T", "U", "V", "W", "X", "Y", "Z">>
LowerCase == <<"a", "b", "c", "d", "e", "f", "g", "h", "i", "j", "k", "l", "m",
               "n", "o", "p", "q", "r", "s", "t", "u", "v", "w", "x", "y", "z">>

Range(s) == {s[i] : i \in 1..Len(s)}
IndexIn(c, s) == CHOOSE i \in 1..Len(s) : s[i] = c

IsDigit(c) == c \in Range(Digits)
IsAlnum(c) == c \in Range(Digits) \cup Range(UpperCase) \cup Range(LowerCase)
DigitVal(c) == IndexIn(c, Digits) - 1

\* int(s) of a non-empty string of decimal digits
RECURSIVE IntOf(_)
IntOf(ds) ==
    IF ds = <<>> THEN 0
    ELSE IntOf(SubSeq(ds, 1, Len(ds) - 1)) * 10 + DigitVal(ds[Len(ds)])

\* str(n) of an int n >= 0
RECURSIVE StrOfNat(_)
StrOfNat(n) ==
    IF n < 10 THEN <<Digits[n + 1]>>
    ELSE StrOfNat(n \div 10) \o <<Digits[(n % 10) + 1]>>

\* s[i..] starts with the literal p
HasAt(s, i, p) ==
    /\ i + Len(p) - 1 <= Len(s)
    /\ \A k \in 1..Len(p) : s[i + k - 1] = p[k]

\* the end of the longest run of digits that starts at s[i] (i - 1 if none)
RECURSIVE DigitRunEnd(_, _)
DigitRunEnd(s, i) ==
    IF i <= Len(s) /\ IsDigit(s[i]) THEN DigitRunEnd(s, i + 1) ELSE i - 1

\* the regular expression's $: the end of the string, or just before a
\* newline that ends the string
AtDollar(s, i) ==
    \/ i = Len(s) + 1
    \/ i = Len(s) /\ s[i] = "\n"

-----------------------------------------------------------------------------
(* extract_sample_id *)

DotJson == <<".", "j", "s", "o", "n">>

\* SAMPLE_ID_RE = _(\d+)\.json$ tried at position i: the end of group 1, or 0.
\* \d+ is greedy and gives digits back one at a time.
SampleIdMatchAt(s, i) ==
    IF s[i] # "_" THEN 0
    ELSE LET last == DigitRunEnd(s, i + 1)
             ends == {k \in (i + 1)..last :
                         HasAt(s, k + 1, DotJson) /\ AtDollar(s, k + 1 + Len(DotJson))}
         IN  IF ends = {} THEN 0 ELSE CHOOSE k \in ends : \A j \in ends : j <= k

\* The variant of the pattern without the underscore: (\d+)\.json$
SampleIdMatchAt_NoUnderscore(s, i) ==
    LET last == DigitRunEnd(s, i)
        ends == {k \in i..last :
                    HasAt(s, k + 1, DotJson) /\ AtDollar(s, k + 1 + Len(DotJson))}
    IN  IF ends = {} THEN 0 ELSE (CHOOSE k \in ends : \A j \in ends : j <= k)

\* The result of SAMPLE_ID_RE.search: the leftmost position that matches
SampleIdSearch(s) ==
    LET hits == {i \in 1..Len(s) : SampleIdMatchAt(s, i) # 0}
    IN  IF hits = {} THEN 0 ELSE CHOOSE i \in hits : \A j \in hits : i <= j

extract_sample_id_NoUnderscore(filename) ==
    LET hits == {i \in 1..Len(filename) : SampleIdMatchAt_NoUnderscore(filename, i) # 0}
        i == CHOOSE h \in hits : \A j \in hits : h <= j
    IN  IF hits = {} THEN EmptyStr
        ELSE PyInt(IntOf(SubSeq(filename, i, SampleIdMatchAt_NoUnderscore(filename, i))))

extract_sample_id(filename) ==
    LET i == SampleIdSearch(filename)
    IN  IF i # 0
        THEN PyInt(IntOf(SubSeq(filename, i + 1, SampleIdMatchAt(filename, i))))
        ELSE EmptyStr

-----------------------------------------------------------------------------
(* slugify *)

\* re.sub(r"[^A-Za-z0-9]+", "_", value): every maximal run of other
\* characters becomes one underscore
RECURSIVE SubNonAlnum(_)
SubNonAlnum(value) ==
    IF value = <<>> THEN <<>>
    ELSE LET rest == SubNonAlnum(Tail(value))
         IN  IF IsAlnum(Head(value)) THEN <<Head(value)>> \o rest
             ELSE IF Len(value) > 1 /\ ~IsAlnum(value[2]) THEN rest
             ELSE <<"_">> \o rest

\* s.strip("_")
RECURSIVE LStrip(_)
LStrip(s) == IF s # <<>> /\ Head(s) = "_" THEN LStrip(Tail(s)) ELSE s
RECURSIVE RStrip(_)
RStrip(s) ==
    IF s # <<>> /\ s[Len(s)] = "_" THEN RStrip(SubSeq(s, 1, Len(s) - 1)) ELSE s
Strip(s) == RStrip(LStrip(s))

\* s.lower(), on the ASCII letters
Lower(s) ==
    [i \in 1..Len(s) |->
        IF s[i] \in Range(UpperCase) THEN LowerCase[IndexIn(s[i], UpperCase)] ELSE s[i]]

Unknown == <<"u", "n", "k", "n", "o", "w", "n">>

slugify(value) ==
    LET cleaned == Strip(SubNonAlnum(value))
    IN  IF Lower(cleaned) # <<>> THEN Lower(cleaned) ELSE Unknown

-----------------------------------------------------------------------------
(* parse_time_to_minutes *)

\* ^(\d{1,2}):(\d{2}) with an hour group of h digits
TimeMatches(s, h) ==
    /\ Len(s) >= h + 3
    /\ \A k \in 1..h : IsDigit(s[k])
    /\ s[h + 1] = ":"
    /\ IsDigit(s[h + 2]) /\ IsDigit(s[h + 3])

TimeValue(s, h) == IntOf(SubSeq(s, 1, h)) * 60 + IntOf(SubSeq(s, h + 2, h + 3))

\* The variant that takes a one-digit minute group: ^(\d{1,2}):(\d{1,2})
parse_time_to_minutes_OneDigitMinute(time_str) ==
    LET s == IF time_str = None THEN <<>> ELSE time_str
        hs == {h \in {1, 2} : /\ Len(s) >= h + 2
                               /\ \A k \in 1..h : IsDigit(s[k])
                               /\ s[h + 1] = ":"
                               /\ IsDigit(s[h + 2])}
        h == CHOOSE x \in hs : \A y \in hs : y <= x
        m == IF Len(s) >= h + 3 /\ IsDigit(s[h + 3]) THEN h + 3 ELSE h + 2
    IN  IF hs = {} THEN 0
        ELSE IntOf(SubSeq(s, 1, h)) * 60 + IntOf(SubSeq(s, h + 2, m))

parse_time_to_minutes(time_str) ==
    LET s == IF time_str = None THEN <<>> ELSE time_str   \* time_str or ""
    IN  IF TimeMatches(s, 2) THEN TimeValue(s, 2)         \* \d{1,2} is greedy
        ELSE IF TimeMatches(s, 1) THEN TimeValue(s, 1)
        ELSE 0

-----------------------------------------------------------------------------
(* Dictionaries and sequences *)

\* d.get(k, default), d a mapping with at least one key
Get(d, k, default) == IF k \in DOMAIN d THEN d[k] ELSE default

\* the mapping {cols[i]: vals[i]}
RowOf(cols, vals) == [k \in Range(cols) |-> vals[IndexIn(k, cols)]]

\* a column name that is compared only as a whole
Col(name) == <<name>>

\* bool(v) of an int or a str
Truthy(v) == IF v.tag = "int" THEN v.val # 0 ELSE v.val # <<>>

\* str(v) of an int (>= 0) or a str
Str(v) == IF v.tag = "int" THEN StrOfNat(v.val) ELSE v.val

\* list.sort on (key, value) pairs with int keys: stable, ascending by key
RECURSIVE InsertPair(_, _)
InsertPair(sorted, x) ==
    IF sorted = <<>> THEN <<x>>
    ELSE IF x.key < sorted[Len(sorted)].key
         THEN InsertPair(SubSeq(sorted, 1, Len(sorted) - 1), x) \o <<sorted[Len(sorted)]>>
         ELSE sorted \o <<x>>

RECURSIVE SortPairs(_)
SortPairs(s) ==
    IF s = <<>> THEN <<>>
    ELSE InsertPair(SortPairs(SubSeq(s, 1, Len(s) - 1)), s[Len(s)])

\* the values of sorted (key, value) pairs
Values(pairs) == [i \in 1..Len(pairs) |-> pairs[i].val]

\* the orders in which a set of strings can be iterated: the order follows the
\* hashes, which are salted anew in each process, so every order is possible
Orders(S) ==
    {o \in [1..Cardinality(S) -> S] : \A i, j \in 1..Cardinality(S) : o[i] = o[j] => i = j}

\* Code points order the characters of a str
CodeOrder == <<"\n", " ", "!", "-", ".">> \o Digits \o <<":">> \o UpperCase
                 \o <<"_">> \o LowerCase \o <<"|">>
Ord(c) == IndexIn(c, CodeOrder)

RECURSIVE StrLess(_, _)
StrLess(a, b) ==
    IF b = <<>> THEN FALSE
    ELSE IF a = <<>> THEN TRUE
    ELSE IF Head(a) = Head(b) THEN StrLess(Tail(a), Tail(b))
    ELSE Ord(Head(a)) < Ord(Head(b))

\* sorted(DIR.glob("*.json")): the file names of a directory in ascending order
RECURSIVE SortedNames(_)
SortedNames(names) ==
    IF names = {} THEN <<>>
    ELSE LET least == CHOOSE n \in names : \A m \in names \ {n} : StrLess(n, m)
         IN  <<least>> \o SortedNames(names \ {least})

-----------------------------------------------------------------------------
(* write_csv *)

\* csv.DictWriter._dict_to_list with restval = "": the cells of a row in the
\* order of the field names
DictToList(fieldnames, row) ==
    [i \in 1..Len(fieldnames) |-> Get(row, fieldnames[i], EmptyStr)]

\* extrasaction = "raise": a key that is no field name
HasExtraKey(fieldnames, row) == DOMAIN row \ Range(fieldnames) # {}

\* The variant with extrasaction = "ignore"
write_csv_IgnoreExtras(files, path, fieldnames, rows) ==
    [fs  |-> (path :> [fieldnames |-> fieldnames,
                       rows |-> [i \in 1..Len(rows) |-> DictToList(fieldnames, rows[i])]])
                 @@ files,
     exc |-> "none"]

\* write_csv(path, fieldnames, rows) on the files `files`: the files after it
\* and the exception it raises.  The header is written first and every row
\* before the first row with an extra key; the with statement closes the file.
write_csv(files, path, fieldnames, rows) ==
    LET bad   == {i \in 1..Len(rows) : HasExtraKey(fieldnames, rows[i])}
        stop  == IF bad = {} THEN Len(rows) + 1
                 ELSE CHOOSE i \in bad : \A j \in bad : i <= j
        lines == [i \in 1..(stop - 1) |-> DictToList(fieldnames, rows[i])]
    IN  [fs  |-> (path :> [fieldnames |-> fieldnames, rows |-> lines]) @@ files,
         exc |-> IF bad = {} THEN "none" ELSE "ValueError"]

-----------------------------------------------------------------------------
(* The rows of the flat tables *)

AliasSampleIdKey ==
    <<"a", "l", "i", "a", "s", "_", "s", "a", "m", "p", "l", "e", "_", "i", "d">>

AliasColumns ==
    <<Col("alias_name"), AliasSampleIdKey, Col("statement_index"), Col("time"),
      Col("location"), Col("activity"), Col("source_file")>>
SuspectStatementColumns ==
    <<Col("suspect_name"), Col("statement_index"), Col("time"), Col("location"),
      Col("activity"), Col("source_file")>>
GpsColumns ==
    <<Col("suspect_name"), Col("gps_index"), Col("time"), Col("location"),
      Col("signal_strength"), Col("source_file")>>
WitnessColumns ==
    <<Col("suspect_name"), Col("witness_name"), Col("witness_reliability"),
      Col("source_file")>>
ObservationColumns ==
    <<Col("suspect_name"), Col("witness_name"), Col("observation_index"), Col("time"),
      Col("location"), Col("activity"), Col("source_file")>>

OutputDir == "csv/"
AliasWideDir == "csv/alias_wide/"
AliasStatementsPath == <<OutputDir, "alias_statements.csv">>
SuspectStatementsPath == <<OutputDir, "suspect_statements.csv">>
GpsPath == <<OutputDir, "suspect_gps.csv">>
WitnessesPath == <<OutputDir, "witnesses.csv">>
ObservationsPath == <<OutputDir, "witness_observations.csv">>
\* ALIAS_WIDE_DIR / f"alias_{slug}.csv"
WidePath(slug) == <<AliasWideDir, "alias_">> \o slug \o <<".csv">>

\* the rows one alias document adds to alias_rows (enumerate counts from 0)
AliasRowsOf(alias_name, sample_id, statements, file_name) ==
    [i \in 1..Len(statements) |->
        RowOf(AliasColumns,
              <<PyStr(alias_name), sample_id, PyInt(i - 1),
                PyStr(Get(statements[i], "time", <<>>)),
                PyStr(Get(statements[i], "location", <<>>)),
                PyStr(Get(statements[i], "activity", <<>>)),
                PyStr(file_name)>>)]

\* alias_by_name.setdefault(alias_name, []).append(sample)
SetDefaultAppend(by_name, alias_name, sample) ==
    IF \E i \in 1..Len(by_name) : by_name[i].name = alias_name
    THEN [i \in 1..Len(by_name) |->
            IF by_name[i].name = alias_name
            THEN [by_name[i] EXCEPT !.samples = Append(@, sample)]
            ELSE by_name[i]]
    ELSE Append(by_name, [name |-> alias_name, samples |-> <<sample>>])

SuspectStatementRowsOf(suspect_name, statements, file_name) ==
    [i \in 1..Len(statements) |->
        RowOf(SuspectStatementColumns,
              <<PyStr(suspect_name), PyInt(i - 1),
                PyStr(Get(statements[i], "time", <<>>)),
                PyStr(Get(statements[i], "location", <<>>)),
                PyStr(Get(statements[i], "activity", <<>>)),
                PyStr(file_name)>>)]

GpsRowsOf(suspect_name, gps_data, file_name) ==
    [i \in 1..Len(gps_data) |->
        RowOf(GpsColumns,
              <<PyStr(suspect_name), PyInt(i - 1),
                PyStr(Get(gps_data[i], "time", <<>>)),
                PyStr(Get(gps_data[i], "location", <<>>)),
                PyStr(Get(gps_data[i], "signal_strength", <<>>)),
                PyStr(file_name)>>)]

\* witness_statements is the sequence of the (name, data) items of the mapping
WitnessRowsOf(suspect_name, witness_statements, file_name) ==
    [w \in 1..Len(witness_statements) |->
        RowOf(WitnessColumns,
              <<PyStr(suspect_name), PyStr(witness_statements[w].name),
                PyStr(Get(witness_statements[w].data, "witness_reliability", <<>>)),
                PyStr(file_name)>>)]

ObservationRowsOfWitness(suspect_name, witness_name, observations, file_name) ==
    [i \in 1..Len(observations) |->
        RowOf(ObservationColumns,
              <<PyStr(suspect_name), PyStr(witness_name), PyInt(i - 1),
                PyStr(Get(observations[i], "time", <<>>)),
                PyStr(Get(observations[i], "location", <<>>)),
                PyStr(Get(observations[i], "activity", <<>>)),
                PyStr(file_name)>>)]

\* The variant that takes the observations of the first witness only
ObservationRowsOf_FirstWitness(suspect_name, witness_statements, file_name) ==
    IF witness_statements = <<>> THEN <<>>
    ELSE ObservationRowsOfWitness(suspect_name, Head(witness_statements).name,
                                  Get(Head(witness_statements).data, "observations", <<>>),
                                  file_name)

RECURSIVE ObservationRowsOf(_, _, _)
ObservationRowsOf(suspect_name, witness_statements, file_name) ==
    IF witness_statements = <<>> THEN <<>>
    ELSE ObservationRowsOfWitness(suspect_name, Head(witness_statements).name,
                                  Get(Head(witness_statements).data, "observations", <<>>),
                                  file_name)
             \o ObservationRowsOf(suspect_name, Tail(witness_statements), file_name)

-----------------------------------------------------------------------------
(* The wide table of one alias *)

RECURSIVE Flatten(_)
Flatten(ss) == IF ss = <<>> THEN <<>> ELSE Head(ss) \o Flatten(Tail(ss))

\* time_set: the times of every statement of every sample
TimeSet(samples) ==
    {Get(e, "time", <<>>) :
        e \in Range(Flatten([i \in 1..Len(samples) |-> samples[i].statements]))}

\* f"({location}, {activity})"
Cell(entry) ==
    <<"(">> \o Get(entry, "location", <<>>) \o <<",", " ">>
        \o Get(entry, "activity", <<>>) \o <<")">>

Separator == <<" ", "|", " ">>

\* the loop over sample["statements"] on the row of the sample
RECURSIVE AddStatements(_, _)
AddStatements(row, statements) ==
    IF statements = <<>> THEN row
    ELSE LET entry    == Head(statements)
             time_key == Get(entry, "time", <<>>)
             value    == IF time_key \in DOMAIN row /\ Truthy(row[time_key])
                         THEN PyStr(Str(row[time_key]) \o Separator \o Cell(entry))
                         ELSE PyStr(Cell(entry))
         IN  AddStatements((time_key :> value) @@ row, Tail(statements))

\* row.setdefault(time_key, "") for every time of the alias
SetDefaults(row, times) ==
    [k \in DOMAIN row \cup Range(times) |-> IF k \in DOMAIN row THEN row[k] ELSE EmptyStr]

WideRow(sample, times) ==
    SetDefaults(AddStatements((AliasSampleIdKey :> sample.sample_id), sample.statements),
                times)

\* sorted(samples, key=lambda s: s["sample_id"]) raises TypeError when it
\* compares an int with a str: whenever the ids are of both kinds
SortRaises(samples) ==
    \E i, j \in 1..Len(samples) : samples[i].sample_id.tag # samples[j].sample_id.tag

SampleKey(sample) == IF sample.sample_id.tag = "int" THEN sample.sample_id.val ELSE 0

\* the sorted samples, when the sort does not raise: all the ids are ints, or
\* all are "" (and equal, so the stable sort keeps the order)
SortedSamples(samples) ==
    Values(SortPairs([i \in 1..Len(samples) |->
                         [key |-> SampleKey(samples[i]), val |-> samples[i]]]))

\* sorted(time_set, key=parse_time_to_minutes), the set iterated in `order`
SortedTimes(order) ==
    Values(SortPairs([i \in 1..Len(order) |->
                         [key |-> parse_time_to_minutes(order[i]), val |-> order[i]]]))

-----------------------------------------------------------------------------
(* The inputs *)

SeqsUpTo(S, n) == UNION {[1..k -> S] : k \in 0..n}

\* the directories with at most max of the files `names`, each one of `docs`
Directories(names, docs, max) ==
    UNION {[S -> docs] : S \in {T \in SUBSET names : Cardinality(T) <= max}}

\* A file whose text json.loads rejects, and one it parses to the mapping d
Malformed == [ok |-> FALSE]
Parsed(d) == [ok |-> TRUE, data |-> d]

\* "a.json" < "a_10.json" < "a_2.json" as file names; the ids are "", 10, 2
AliasFileNames ==
    {<<"a">> \o DotJson, <<"a", "_", "1", "0">> \o DotJson, <<"a", "_", "2">> \o DotJson}

\* two names of one slug
AliasNames == {<<"A", " ", "b">>, <<"a", "-", "b">>}

\* The times are "9:15" and "09:15" (both minute 555), "alias_sample_id" and
\* the default "" of a missing time (both minute 0)
AliasEntries ==
    {[time |-> <<"9", ":", "1", "5">>, location |-> <<"H">>, activity |-> <<"S">>],
     [time |-> <<"0", "9", ":", "1", "5">>, location |-> <<"a", " ", "|", " ", "b">>],
     [time |-> AliasSampleIdKey, activity |-> <<"T">>],
     [location |-> <<"W">>, activity |-> <<>>]}

\* the entries that have a time
TimedEntries == {e \in AliasEntries : "time" \in DOMAIN e}

AliasDocumentsOf(names, entries, max_statements) ==
    {Malformed}
        \cup {Parsed([name |-> n, suspect_statement |-> s]) :
                 n \in names, s \in SeqsUpTo(entries, max_statements)}
        \cup {Parsed([suspect_statement |-> <<e>>]) : e \in entries}
        \cup {Parsed([name |-> n]) : n \in names}

AliasDirectories ==
    Directories(AliasFileNames, AliasDocumentsOf(AliasNames, AliasEntries, MaxStatements),
                MaxAliasFiles)

\* The alias directories of one name and fewer statements, each with a time
FewAliasDirectories ==
    Directories(AliasFileNames,
                AliasDocumentsOf({<<"A", " ", "b">>}, TimedEntries, MaxFewStatements),
                MaxFewAliasFiles)

OneAliasDirectory ==
    [f \in {<<"a", "_", "2">> \o DotJson} |->
        Parsed([name |-> <<"A", " ", "b">>,
                suspect_statement |-> <<[time |-> <<"9", ":", "1", "5">>,
                                         location |-> <<"H">>, activity |-> <<"S">>]>>])]

SuspectFileNames == {<<"s", "1">> \o DotJson, <<"s", "2">> \o DotJson}
SuspectName == <<"S", "u", "e">>
SuspectEntries == {[time |-> <<"9", ":", "1", "5">>, location |-> <<"H">>]}
GpsEntries == {[time |-> <<"9", ":", "1", "5">>, signal_strength |-> <<"3">>]}
ObservationEntries == {[location |-> <<"W">>, activity |-> <<"T">>]}
WitnessNames == {<<"v">>, <<"w">>}
WitnessData ==
    {[witness_reliability |-> <<"7">>, observations |-> o] :
        o \in SeqsUpTo(ObservationEntries, MaxObservations)}
        \cup {[witness_reliability |-> <<"7">>]}
        \cup {[observations |-> o] : o \in SeqsUpTo(ObservationEntries, MaxObservations) \ {<<>>}}

\* the mappings of at most MaxWitnesses witnesses, as their items in order
WitnessMappings ==
    {m \in SeqsUpTo([name : WitnessNames, data : WitnessData], MaxWitnesses) :
        \A i, j \in 1..Len(m) : m[i].name = m[j].name => i = j}

OneStatement == <<CHOOSE e \in SuspectEntries : TRUE>>
OneGps == <<CHOOSE e \in GpsEntries : TRUE>>
OneWitness ==
    <<[name |-> <<"w">>,
       data |-> [witness_reliability |-> <<"7">>,
                 observations |-> <<CHOOSE e \in ObservationEntries : TRUE>>]]>>

SuspectData(s, g, w) ==
    [name |-> SuspectName, suspect_statement |-> s, gps_data |-> g, witness_statements |-> w]

\* The suspect documents: each of the three collections varies, beside the
\* two others of one element; a key of the document may be missing
SuspectDocuments ==
    {Malformed}
        \cup {Parsed(SuspectData(s, OneGps, OneWitness)) :
                 s \in SeqsUpTo(SuspectEntries, MaxStatements)}
        \cup {Parsed(SuspectData(OneStatement, g, OneWitness)) :
                 g \in SeqsUpTo(GpsEntries, MaxGps)}
        \cup {Parsed(SuspectData(OneStatement, OneGps, w)) : w \in WitnessMappings}
        \cup {Parsed([name |-> SuspectName]), Parsed([gps_data |-> OneGps])}

SuspectDirectories ==
    Directories(SuspectFileNames, SuspectDocuments, Cardinality(SuspectFileNames))

OneSuspectDirectory ==
    [f \in {<<"s", "1">> \o DotJson} |-> Parsed(SuspectData(OneStatement, OneGps, OneWitness))]

-----------------------------------------------------------------------------
(* main *)

NoFiles == [p \in {} |-> <<>>]
Runs == {1, 2}
NoRows == [statements |-> <<>>, gps |-> <<>>, witnesses |-> <<>>, observations |-> <<>>]

\* the state at the entry of main()
AtEntry ==
    /\ pc = "alias_loop"
    /\ idx = 1
    /\ alias_rows = <<>>
    /\ alias_by_name = <<>>
    /\ suspect_rows = NoRows
    /\ exc = "none"

InitMain(ad, sd) ==
    /\ call = [fn |-> "main"]
    /\ ret = None
    /\ alias_dir = ad
    /\ suspect_dir = sd
    /\ fs = NoFiles
    /\ run = 1
    /\ wide_headers = <<>>
    /\ AtEntry

Init ==
    \/ \E ad \in AliasDirectories : InitMain(ad, OneSuspectDirectory)
    \/ \E sd \in SuspectDirectories : InitMain(OneAliasDirectory, sd)

InitFew ==
    \/ \E ad \in FewAliasDirectories : InitMain(ad, OneSuspectDirectory)
    \/ \E sd \in SuspectDirectories : InitMain(OneAliasDirectory, sd)

AliasFiles == SortedNames(DOMAIN alias_dir)
SuspectFiles == SortedNames(DOMAIN suspect_dir)

\* an exception nothing catches ends the run
Raise(e) ==
    /\ pc' = "aborted"
    /\ exc' = e

\* The variant that goes on to the next file when a document does not parse
ReadAlias_SkipMalformed ==
    /\ call.fn = "main" /\ pc = "alias_loop" /\ idx <= Len(AliasFiles)
    /\ LET file_name  == AliasFiles[idx]
           doc        == alias_dir[file_name]
           alias_name == Get(doc.data, "name", <<>>)
           statements == Get(doc.data, "suspect_statement", <<>>)
           sample_id  == extract_sample_id(file_name)
       IN  IF ~doc.ok
           THEN UNCHANGED <<alias_rows, alias_by_name>>
           ELSE /\ alias_by_name' =
                       SetDefaultAppend(alias_by_name, alias_name,
                                        [sample_id |-> sample_id, statements |-> statements,
                                         source_file |-> file_name])
                /\ alias_rows' = alias_rows
                       \o AliasRowsOf(alias_name, sample_id, statements, file_name)
    /\ idx' = idx + 1
    /\ UNCHANGED <<call, ret, pc, exc, alias_dir, suspect_dir, suspect_rows, fs, run,
                   wide_headers>>

\* One iteration of the loop over the alias files (lines 54-76)
ReadAlias ==
    /\ call.fn = "main" /\ pc = "alias_loop" /\ idx <= Len(AliasFiles)
    /\ LET file_name  == AliasFiles[idx]
           doc        == alias_dir[file_name]
           alias_name == Get(doc.data, "name", <<>>)
           statements == Get(doc.data, "suspect_statement", <<>>)
           sample_id  == extract_sample_id(file_name)
       IN  IF ~doc.ok
           THEN /\ Raise("JSONDecodeError")
                /\ UNCHANGED <<idx, alias_rows, alias_by_name>>
           ELSE /\ alias_by_name' =
                       SetDefaultAppend(alias_by_name, alias_name,
                                        [sample_id |-> sample_id, statements |-> statements,
                                         source_file |-> file_name])
                /\ alias_rows' = alias_rows
                       \o AliasRowsOf(alias_name, sample_id, statements, file_name)
                /\ idx' = idx + 1
                /\ UNCHANGED <<pc, exc>>
    /\ UNCHANGED <<call, ret, alias_dir, suspect_dir, suspect_rows, fs, run, wide_headers>>

\* write_csv of alias_statements.csv after the loop (lines 78-90)
WriteAliasStatements ==
    /\ call.fn = "main" /\ pc = "alias_loop" /\ idx > Len(AliasFiles)
    /\ LET w == write_csv(fs, AliasStatementsPath, AliasColumns, alias_rows)
       IN  /\ fs' = w.fs
           /\ IF w.exc # "none"
              THEN Raise(w.exc) /\ UNCHANGED idx
              ELSE /\ pc' = IF alias_by_name = <<>> THEN "suspect_loop" ELSE "wide_loop"
                   /\ idx' = 1
                   /\ UNCHANGED exc
    /\ UNCHANGED <<call, ret, alias_dir, suspect_dir, alias_rows, alias_by_name,
                   suspect_rows, run, wide_headers>>

\* One iteration of the loop over alias_by_name.items() (lines 92-117).  The
\* set of the times is iterated in an order that depends on the hashes of the
\* strings, which differ from one run of the interpreter to the next.
BuildWide ==
    /\ call.fn = "main" /\ pc = "wide_loop" /\ idx <= Len(alias_by_name)
    /\ LET alias_name == alias_by_name[idx].name
           samples    == alias_by_name[idx].samples
       IN  \E order \in Orders(TimeSet(samples)) :
              LET times      == SortedTimes(order)
                  sorted     == SortedSamples(samples)
                  rows       == [i \in 1..Len(samples) |-> WideRow(sorted[i], times)]
                  fieldnames == <<AliasSampleIdKey>> \o times
                  w == write_csv(fs, WidePath(slugify(alias_name)), fieldnames, rows)
              IN  IF SortRaises(samples)
                  THEN /\ Raise("TypeError")
                       /\ UNCHANGED <<idx, fs, wide_headers>>
                  ELSE /\ fs' = w.fs
                       /\ wide_headers' =
                              Append(wide_headers, [run |-> run, alias_name |-> alias_name,
                                                    fieldnames |-> fieldnames])
                       /\ IF w.exc # "none"
                          THEN Raise(w.exc) /\ UNCHANGED idx
                          ELSE /\ pc' = IF idx = Len(alias_by_name)
                                        THEN "suspect_loop" ELSE "wide_loop"
                               /\ idx' = IF idx = Len(alias_by_name) THEN 1 ELSE idx + 1
                               /\ UNCHANGED exc
    /\ UNCHANGED <<call, ret, alias_dir, suspect_dir, alias_rows, alias_by_name,
                   suspect_rows, run>>

\* One iteration of the loop over the suspect files (lines 124-175)
ReadSuspect ==
    /\ call.fn = "main" /\ pc = "suspect_loop" /\ idx <= Len(SuspectFiles)
    /\ LET file_name    == SuspectFiles[idx]
           doc          == suspect_dir[file_name]
           suspect_name == Get(doc.data, "name", <<>>)
           statements   == Get(doc.data, "suspect_statement", <<>>)
           gps_data     == Get(doc.data, "gps_data", <<>>)
           witnesses    == Get(doc.data, "witness_statements", <<>>)
       IN  IF ~doc.ok
           THEN /\ Raise("JSONDecodeError")
                /\ UNCHANGED <<idx, suspect_rows>>
           ELSE /\ suspect_rows' =
                       [statements   |-> suspect_rows.statements
                            \o SuspectStatementRowsOf(suspect_name, statements, file_name),
                        gps          |-> suspect_rows.gps
                            \o GpsRowsOf(suspect_name, gps_data, file_name),
                        witnesses    |-> suspect_rows.witnesses
                            \o WitnessRowsOf(suspect_name, witnesses, file_name),
                        observations |-> suspect_rows.observations
                            \o ObservationRowsOf(suspect_name, witnesses, file_name)]
                /\ idx' = idx + 1
                /\ UNCHANGED <<pc, exc>>
    /\ UNCHANGED <<call, ret, alias_dir, suspect_dir, alias_rows, alias_by_name, fs, run,
                   wide_headers>>

\* a write_csv of one of the four suspect tables, and the position after it
WriteTable(path, columns, rows, next) ==
    /\ LET w == write_csv(fs, path, columns, rows)
       IN  /\ fs' = w.fs
           /\ IF w.exc # "none" THEN Raise(w.exc) ELSE pc' = next /\ UNCHANGED exc
    /\ UNCHANGED <<call, ret, alias_dir, suspect_dir, idx, alias_rows, alias_by_name,
                   suspect_rows, run, wide_headers>>

\* lines 177-188
WriteSuspectStatements ==
    /\ call.fn = "main" /\ pc = "suspect_loop" /\ idx > Len(SuspectFiles)
    /\ WriteTable(SuspectStatementsPath, SuspectStatementColumns, suspect_rows.statements,
                  "write_gps")

\* lines 190-194
WriteGps ==
    /\ call.fn = "main" /\ pc = "write_gps"
    /\ WriteTable(GpsPath, GpsColumns, suspect_rows.gps, "write_witnesses")

\* lines 196-200
WriteWitnesses ==
    /\ call.fn = "main" /\ pc = "write_witnesses"
    /\ WriteTable(WitnessesPath, WitnessColumns, suspect_rows.witnesses,
                  "write_observations")

\* lines 202-214
WriteObservations ==
    /\ call.fn = "main" /\ pc = "write_observations"
    /\ WriteTable(ObservationsPath, ObservationColumns, suspect_rows.observations, "done")

\* The program is run again on the same directories; the files stay
Rerun ==
    /\ call.fn = "main" /\ pc \in {"done", "aborted"} /\ run + 1 \in Runs
    /\ run' = run + 1
    /\ pc' = "alias_loop"
    /\ idx' = 1
    /\ alias_rows' = <<>>
    /\ alias_by_name' = <<>>
    /\ suspect_rows' = NoRows
    /\ exc' = "none"
    /\ UNCHANGED <<call, ret, alias_dir, suspect_dir, fs, wide_headers>>

Next ==
    \/ ReadAlias
    \/ WriteAliasStatements
    \/ BuildWide
    \/ ReadSuspect
    \/ WriteSuspectStatements
    \/ WriteGps
    \/ WriteWitnesses
    \/ WriteObservations

Spec == Init /\ [][Next]_vars

\* The directories of one alias name and fewer statements
SpecFew == InitFew /\ [][Next]_vars

\* Two runs of the program on the same directories
SpecTwoRuns == InitFew /\ [][Next \/ Rerun]_vars

-----------------------------------------------------------------------------
(* The helpers called on their own *)

\* the state around a call of a helper: main() is not running
InitCall(c) ==
    /\ call = c
    /\ ret = None
    /\ pc = "call"
    /\ alias_dir = NoFiles
    /\ suspect_dir = NoFiles
    /\ idx = 0
    /\ alias_rows = <<>>
    /\ alias_by_name = <<>>
    /\ suspect_rows = NoRows
    /\ fs = NoFiles
    /\ exc = "none"
    /\ run = 1
    /\ wide_headers = <<>>

StemChars == {"a", "_", "0", "7"}
Extensions == {DotJson, DotJson \o <<"\n">>, <<".", "j", "s">>, <<>>}
FileNames == {stem \o ext : stem \in SeqsUpTo(StemChars, MaxStemLen), ext \in Extensions}

InitSampleId == \E f \in FileNames : InitCall([fn |-> "extract_sample_id", filename |-> f])

CallExtractSampleId ==
    /\ call.fn = "extract_sample_id" /\ pc = "call"
    /\ ret' = extract_sample_id(call.filename)
    /\ pc' = "returned"
    /\ UNCHANGED <<call, alias_dir, suspect_dir, idx, alias_rows, alias_by_name,
                   suspect_rows, fs, exc, run, wide_headers>>

SpecSampleId == InitSampleId /\ [][CallExtractSampleId]_vars

TimeChars == {"1", "9", ":", "x"}
TimeStrings == SeqsUpTo(TimeChars, MaxTimeLen) \cup {None}

InitParseTime ==
    \E s \in TimeStrings : InitCall([fn |-> "parse_time_to_minutes", time_str |-> s])

CallParseTime ==
    /\ call.fn = "parse_time_to_minutes" /\ pc = "call"
    /\ ret' = parse_time_to_minutes(call.time_str)
    /\ pc' = "returned"
    /\ UNCHANGED <<call, alias_dir, suspect_dir, idx, alias_rows, alias_by_name,
                   suspect_rows, fs, exc, run, wide_headers>>

SpecParseTime == InitParseTime /\ [][CallParseTime]_vars

CsvKeys == {Col("a"), Col("b"), Col("c")}
CsvValues == {PyInt(1), PyStr(<<"x">>)}
CsvFieldnames == {<<Col("a"), Col("b")>>, <<Col("b")>>}
CsvRowDicts == UNION {[K -> CsvValues] : K \in SUBSET CsvKeys}
CsvPath == <<OutputDir, "out.csv">>

InitWriteCsv ==
    \E f \in CsvFieldnames, rows \in SeqsUpTo(CsvRowDicts, MaxCsvRows) :
        InitCall([fn |-> "write_csv", path |-> CsvPath, fieldnames |-> f, rows |-> rows])

CallWriteCsv ==
    /\ call.fn = "write_csv" /\ pc = "call"
    /\ LET w == write_csv(fs, call.path, call.fieldnames, call.rows)
       IN  /\ fs' = w.fs
           /\ exc' = w.exc
           /\ pc' = IF w.exc = "none" THEN "returned" ELSE "raised"
    /\ UNCHANGED <<call, ret, alias_dir, suspect_dir, idx, alias_rows, alias_by_name,
                   suspect_rows, run, wide_headers>>

SpecWriteCsv == InitWriteCsv /\ [][CallWriteCsv]_vars

-----------------------------------------------------------------------------
(* extract_sample_id: C1 *)

StripFinalNewline(f) ==
    IF f # <<>> /\ f[Len(f)] = "\n" THEN SubSeq(f, 1, Len(f) - 1) ELSE f

EndsWithDotJson(f) ==
    Len(f) >= Len(DotJson) /\ SubSeq(f, Len(f) - Len(DotJson) + 1, Len(f)) = DotJson

\* the longest run of digits that ends s
RECURSIVE TrailingDigits(_)
TrailingDigits(s) ==
    IF s # <<>> /\ IsDigit(s[Len(s)])
    THEN TrailingDigits(SubSeq(s, 1, Len(s) - 1)) \o <<s[Len(s)]>>
    ELSE <<>>

\* the digits right before the suffix ".json" (a final newline set aside)
DigitsBeforeDotJson(f) ==
    LET b == StripFinalNewline(f)
    IN  IF EndsWithDotJson(b) THEN TrailingDigits(SubSeq(b, 1, Len(b) - Len(DotJson)))
        ELSE <<>>

\* the character right before those digits, "" if there is none
CharBeforeDigits(f) ==
    LET n == Len(StripFinalNewline(f)) - Len(DotJson) - Len(DigitsBeforeDotJson(f))
    IN  IF n >= 1 THEN f[n] ELSE ""

\* C1 as stated: extract_sample_id returns the int of the run of digits right
\* before ".json" whatever precedes the run, and "" when there is no such run.
C1_AnyDigitRun ==
    (call.fn = "extract_sample_id" /\ pc = "returned") =>
        ret = IF DigitsBeforeDotJson(call.filename) # <<>>
              THEN PyInt(IntOf(DigitsBeforeDotJson(call.filename)))
              ELSE EmptyStr

\* C1 amended: extract_sample_id returns the int of the run of digits right
\* before ".json" when an underscore is right before the run, and "" in every
\* other case: no run, or a run that another character or nothing precedes.
C1_UnderscoreDigitRun ==
    (call.fn = "extract_sample_id" /\ pc = "returned") =>
        ret = IF /\ DigitsBeforeDotJson(call.filename) # <<>>
                 /\ CharBeforeDigits(call.filename) = "_"
              THEN PyInt(IntOf(DigitsBeforeDotJson(call.filename)))
              ELSE EmptyStr

\* C1 witness: "_07.json" has returned 7
C1_Witness ==
    /\ call.fn = "extract_sample_id" /\ pc = "returned"
    /\ call.filename = <<"_", "0", "7">> \o DotJson
    /\ ret = PyInt(7)

-----------------------------------------------------------------------------
(* parse_time_to_minutes: C8 *)

CharClass(c) == IF IsDigit(c) THEN "d" ELSE IF c = ":" THEN ":" ELSE "x"
StartsLike(s, shape) ==
    Len(s) >= Len(shape) /\ [i \in 1..Len(shape) |-> CharClass(s[i])] = shape

\* hours * 60 + minutes of a string that begins with H:MM or HH:MM, else 0
MinutesOfDay(s) ==
    IF s = None THEN 0
    ELSE IF StartsLike(s, <<"d", "d", ":", "d", "d">>)
         THEN IntOf(SubSeq(s, 1, 2)) * 60 + IntOf(SubSeq(s, 4, 5))
    ELSE IF StartsLike(s, <<"d", ":", "d", "d">>)
         THEN IntOf(SubSeq(s, 1, 1)) * 60 + IntOf(SubSeq(s, 3, 4))
    ELSE 0

\* C8 as stated: parse_time_to_minutes returns hours * 60 + minutes of a string
\* that begins with H:MM or HH:MM, a minute of the day in 0..1439, and 0 for
\* every other string.
C8_MinuteOfDay ==
    (call.fn = "parse_time_to_minutes" /\ pc = "returned") =>
        /\ ret = MinutesOfDay(call.time_str)
        /\ ret \in 0..1439

\* C8 amended: parse_time_to_minutes returns hours * 60 + minutes of a string
\* that begins with H:MM or HH:MM, where the hours and the minutes are any
\* digits (the result is in 0..6039), and 0 for every other string.
C8_HoursTimesSixtyPlusMinutes ==
    (call.fn = "parse_time_to_minutes" /\ pc = "returned") =>
        /\ ret = MinutesOfDay(call.time_str)
        /\ ret \in 0..(99 * 60 + 99)

\* C8 witness: "9:1", whose minute group has one digit, has returned 0
C8_Witness ==
    /\ call.fn = "parse_time_to_minutes" /\ pc = "returned"
    /\ call.time_str = <<"9", ":", "1">>
    /\ ret = 0

-----------------------------------------------------------------------------
(* write_csv: C4 *)

KeysWithin(row, fieldnames) == DOMAIN row \subseteq Range(fieldnames)
KeysCover(row, fieldnames) == Range(fieldnames) \subseteq DOMAIN row

\* the file holds the field names and, of rows 1..n, the value of each column
\* or "" where the row has none
FileHolds(file, fieldnames, rows, n) ==
    /\ file.fieldnames = fieldnames
    /\ Len(file.rows) = n
    /\ \A i \in 1..n : \A j \in 1..Len(fieldnames) :
           file.rows[i][j] = IF fieldnames[j] \in DOMAIN rows[i]
                             THEN rows[i][fieldnames[j]] ELSE EmptyStr

\* C4 as stated: write_csv succeeds when the keys of every row are a subset or
\* a superset of the field names; an absent column is written as "" and an
\* extra key is ignored.
C4_SubsetOrSuperset ==
    (call.fn = "write_csv" /\ pc # "call") =>
        ((\A i \in 1..Len(call.rows) :
              \/ KeysWithin(call.rows[i], call.fieldnames)
              \/ KeysCover(call.rows[i], call.fieldnames))
            => /\ exc = "none"
               /\ FileHolds(fs[call.path], call.fieldnames, call.rows, Len(call.rows)))

\* C4 amended: write_csv succeeds when the keys of every row are a subset of
\* the field names, an absent column being written as ""; a row with a key
\* that is no field name makes it raise ValueError, the file then holding the
\* header and the rows before that row.
C4_SubsetOnly ==
    (call.fn = "write_csv" /\ pc # "call") =>
        LET bad == {i \in 1..Len(call.rows) : ~KeysWithin(call.rows[i], call.fieldnames)}
        IN  IF bad = {}
            THEN /\ exc = "none" /\ pc = "returned"
                 /\ FileHolds(fs[call.path], call.fieldnames, call.rows, Len(call.rows))
            ELSE /\ exc = "ValueError" /\ pc = "raised"
                 /\ \E n \in 0..Len(call.rows) :
                        /\ n + 1 \in bad
                        /\ \A i \in bad : i > n
                        /\ FileHolds(fs[call.path], call.fieldnames, call.rows, n)

\* C4 witness: a row without the column "a" has been written, with "" there
C4_Witness ==
    /\ call.fn = "write_csv" /\ pc = "returned"
    /\ call.fieldnames = <<Col("a"), Col("b")>>
    /\ \E i \in 1..Len(call.rows) :
           /\ DOMAIN call.rows[i] = {Col("b")}
           /\ fs[call.path].rows[i] = <<EmptyStr, call.rows[i][Col("b")]>>

-----------------------------------------------------------------------------
(* The flat tables: C7 *)

RECURSIVE Sum(_)
Sum(s) == IF s = <<>> THEN 0 ELSE Head(s) + Sum(Tail(s))

\* the documents of a directory in the order of the file names
DocumentsOf(dir) ==
    LET files == SortedNames(DOMAIN dir) IN [i \in 1..Len(files) |-> dir[files[i]]]

\* the sum over the records of a directory of len(record[key])
NestedLength(dir, key) ==
    Sum([i \in 1..Len(DocumentsOf(dir)) |-> Len(Get(DocumentsOf(dir)[i].data, key, <<>>))])

\* the sum over the witnesses of a record of len(observations)
ObservationsIn(record) ==
    LET ws == Get(record, "witness_statements", <<>>)
    IN  Sum([w \in 1..Len(ws) |-> Len(Get(ws[w].data, "observations", <<>>))])

DataRows(path) == Len(fs[path].rows)

\* C7: each flat table that is written has as many data rows as the sum over
\* the input records of the length of the nested collection it comes from
\* (statements, gps_data, the witnesses, the observations of every witness);
\* a record without the collection, or with an empty one, adds no row.
C7_RowsAreNestedLengths ==
    /\ AliasStatementsPath \in DOMAIN fs =>
           DataRows(AliasStatementsPath) = NestedLength(alias_dir, "suspect_statement")
    /\ SuspectStatementsPath \in DOMAIN fs =>
           DataRows(SuspectStatementsPath) = NestedLength(suspect_dir, "suspect_statement")
    /\ GpsPath \in DOMAIN fs => DataRows(GpsPath) = NestedLength(suspect_dir, "gps_data")
    /\ WitnessesPath \in DOMAIN fs =>
           DataRows(WitnessesPath) = NestedLength(suspect_dir, "witness_statements")
    /\ ObservationsPath \in DOMAIN fs =>
           DataRows(ObservationsPath) =
               Sum([i \in 1..Len(DocumentsOf(suspect_dir)) |->
                       ObservationsIn(DocumentsOf(suspect_dir)[i].data)])

\* C7 witness: the run is done on two suspect records, one without witnesses
\* and one with two witnesses that each have an observation; the tables of the
\* statements and of the gps data have a row of each record
C7_Witness ==
    /\ call.fn = "main" /\ pc = "done"
    /\ Len(DocumentsOf(suspect_dir)) = 2
    /\ \E i \in 1..2 : Get(DocumentsOf(suspect_dir)[i].data, "witness_statements", <<>>) = <<>>
    /\ DataRows(WitnessesPath) = 2
    /\ DataRows(ObservationsPath) = 2
    /\ DataRows(SuspectStatementsPath) = 2
    /\ DataRows(GpsPath) = 2

-----------------------------------------------------------------------------
(* Documents that do not parse: C9 *)

HasMalformed(dir) == \E f \in DOMAIN dir : ~dir[f].ok

SuspectPaths == {SuspectStatementsPath, GpsPath, WitnessesPath, ObservationsPath}

\* C9: a document that does not parse aborts the run and no file is written
\* after it.  With a malformed alias document no file is written at all; with
\* a malformed suspect document none of the four suspect tables is written,
\* and when the run aborts on it alias_statements.csv and the wide table of
\* every alias are already written.
C9_NoFileAfterMalformed ==
    /\ HasMalformed(alias_dir) => DOMAIN fs = {}
    /\ HasMalformed(suspect_dir) => DOMAIN fs \cap SuspectPaths = {}
    /\ (HasMalformed(alias_dir) \/ HasMalformed(suspect_dir)) => pc # "done"
    /\ exc = "JSONDecodeError" =>
           /\ pc = "aborted"
           /\ HasMalformed(alias_dir) \/ HasMalformed(suspect_dir)
           /\ ~HasMalformed(alias_dir) =>
                  /\ AliasStatementsPath \in DOMAIN fs
                  /\ \A i \in 1..Len(alias_by_name) :
                         WidePath(slugify(alias_by_name[i].name)) \in DOMAIN fs

\* C9 witness: the run has aborted on the second suspect document, after
\* alias_statements.csv and a wide table were written
C9_Witness ==
    /\ call.fn = "main" /\ pc = "aborted" /\ exc = "JSONDecodeError"
    /\ idx = 2
    /\ AliasStatementsPath \in DOMAIN fs
    /\ alias_by_name # <<>>
    /\ WidePath(slugify(alias_by_name[1].name)) \in DOMAIN fs
    /\ DOMAIN fs \cap SuspectPaths = {}

-----------------------------------------------------------------------------
(* The wide tables: C2, C3, C5, C6, C10 *)

\* the wide table written last, its alias and its file
LastWide == wide_headers[Len(wide_headers)]
WideWritten ==
    /\ wide_headers # <<>>
    /\ LastWide.run = run
    /\ \E i \in 1..Len(alias_by_name) : alias_by_name[i].name = LastWide.alias_name
LastSamples ==
    alias_by_name[CHOOSE i \in 1..Len(alias_by_name) :
                      alias_by_name[i].name = LastWide.alias_name].samples
LastFile == fs[WidePath(slugify(LastWide.alias_name))]

TimesOf(sample) == {Get(e, "time", <<>>) : e \in Range(sample.statements)}

\* the sort key the specification gives to a sample id: the id, 0 for ""
IdKey(v) == IF v.tag = "int" THEN v.val ELSE 0

\* C2: the rows of a wide table are in ascending order of the sample id, ""
\* ordered as 0, also for an alias whose samples have ids of both kinds, and
\* the run ends without an error.  (The ids are read from the first column,
\* for an alias none of whose times is the text of that column's name.)
C2_RowsAscendingNoError ==
    /\ exc # "TypeError"
    /\ (WideWritten /\ AliasSampleIdKey \notin TimeSet(LastSamples)) =>
           /\ Len(LastFile.rows) = Len(LastSamples)
           /\ \A r \in 1..(Len(LastFile.rows) - 1) :
                  IdKey(LastFile.rows[r][1]) <= IdKey(LastFile.rows[r + 1][1])

\* C3: after a run without error every alias name of the input has a wide
\* table of its own, alias_<slug(name)>.csv, with one row for each of its
\* samples; no two names share a file.
C3_OneFilePerAlias ==
    (call.fn = "main" /\ pc = "done") =>
        /\ \A i \in 1..Len(alias_by_name) :
               /\ WidePath(slugify(alias_by_name[i].name)) \in DOMAIN fs
               /\ Len(fs[WidePath(slugify(alias_by_name[i].name))].rows)
                      = Len(alias_by_name[i].samples)
        /\ \A i, j \in 1..Len(alias_by_name) :
               i # j => WidePath(slugify(alias_by_name[i].name))
                            # WidePath(slugify(alias_by_name[j].name))

\* C5: the header of a wide table is alias_sample_id and then each time of
\* the alias once, by non-decreasing minute key; the cell of a row in the
\* column of a time that its sample does not have is "".
C5_HeaderAndEmptyCells ==
    WideWritten =>
        LET header == LastFile.fieldnames
            sorted == SortedSamples(LastSamples)
        IN  /\ header[1] = AliasSampleIdKey
            /\ {header[c] : c \in 2..Len(header)} = TimeSet(LastSamples)
            /\ Len(header) = 1 + Cardinality(TimeSet(LastSamples))
            /\ \A c \in 2..(Len(header) - 1) :
                   parse_time_to_minutes(header[c]) <= parse_time_to_minutes(header[c + 1])
            /\ \A r \in 1..Len(LastFile.rows) : \A c \in 2..Len(header) :
                   header[c] \notin TimesOf(sorted[r]) => LastFile.rows[r][c] = EmptyStr

\* str.split(" | ")
RECURSIVE Split(_)
Split(s) ==
    IF \E i \in 1..Len(s) : HasAt(s, i, Separator)
    THEN LET i == CHOOSE i \in 1..Len(s) :
                      /\ HasAt(s, i, Separator)
                      /\ \A j \in 1..(i - 1) : ~HasAt(s, j, Separator)
         IN  <<SubSeq(s, 1, i - 1)>> \o Split(SubSeq(s, i + Len(Separator), Len(s)))
    ELSE <<s>>

\* the parts of a cell, none for the empty cell
SplitCell(s) == IF s = <<>> THEN <<>> ELSE Split(s)

\* the "(location, activity)" strings of the entries of a sample at a time
CellsAt(sample, t) ==
    LET AtTime(e) == Get(e, "time", <<>>) = t
        entries == SelectSeq(sample.statements, AtTime)
    IN  [k \in 1..Len(entries) |-> Cell(entries[k])]

\* C6: splitting the cell of a sample in a time column on " | " gives the
\* "(location, activity)" strings of the entries of the sample at that time,
\* in the order of the statements, for all strings and all times.
C6_SplitRecoversEntries ==
    WideWritten =>
        LET header == LastFile.fieldnames
            sorted == SortedSamples(LastSamples)
        IN  \A r \in 1..Len(LastFile.rows) : \A c \in 2..Len(header) :
                SplitCell(Str(LastFile.rows[r][c])) = CellsAt(sorted[r], header[c])

\* C10: two runs on the same input files write the same header for the wide
\* table of an alias, also when two times of the alias have the same sort key.
C10_SameHeaderInEveryRun ==
    \A i, j \in 1..Len(wide_headers) :
        wide_headers[i].alias_name = wide_headers[j].alias_name
            => wide_headers[i].fieldnames = wide_headers[j].fieldnames

====
